---- MODULE Spec2Model ----
(***************************************************************************)
(* Trend-line detection engine of ototrend (server.js): findPivotPoints,   *)
(* evaluateTrendLine, searchBest and findBestTrendLine.                     *)
(*                                                                         *)
(* Numbers.  Prices are integers counting units of 1e-7, so that           *)
(* LINE_TOLERANCE (1e-6) is 10 units, the touch tolerance (1e-5) is 100    *)
(* units and toFixed(6) is a real rounding (to a multiple of 10 units).    *)
(* The arithmetic is exact: slope and expected(idx) are rationals, and     *)
(* every comparison of the code is made after multiplying through by the   *)
(* index difference.  Candle times are small integers that increase with   *)
(* the index.  Indices are the code's 0-based indices; candle idx of the   *)
(* code is element idx+1 of the sequence.  A candle carries only the       *)
(* fields the engine reads (time, high, low).                              *)
(***************************************************************************)
EXTENDS Integers, Sequences, FiniteSets

VARIABLES
  candles,        \* the candle series passed to the engine
  bg,             \* the background shape the series is built on (input family)
  window,         \* the window argument of findPivotPoints
  pc,             \* "build" while the input is assembled, then the call made
  pivotHighs,     \* findPivotPoints(...).pivotHighs
  pivotLows,      \* findPivotPoints(...).pivotLows
  pivotA,         \* evaluateTrendLine's argument pivotA
  pivotB,         \* evaluateTrendLine's argument pivotB
  type,           \* evaluateTrendLine's argument type
  candidate,      \* evaluateTrendLine's return value
  supportLine,    \* findBestTrendLine's supportLine
  resistanceLine, \* findBestTrendLine's resistanceLine
  result,         \* findBestTrendLine's return value
  searchI,        \* searchBest's loop variable i
  searchJ,        \* searchBest's loop variable j
  runningBest,    \* searchBest's variable best
  history,        \* the calls of findBestTrendLine made so far: argument and result
  symbolsCache,   \* let symbolsCache
  lastSymbolsFetch, \* let lastSymbolsFetch
  clock,          \* Date.now()
  symCalls,       \* the calls of getSymbols: where each stands
  requests        \* the requests received by the server: where each stands

\* the engine's inputs, locals and results
engineVars == <<candles, bg, window, pc, pivotHighs, pivotLows, pivotA, pivotB, type,
                candidate, supportLine, resistanceLine, result>>

\* the state of the step-wise search, of the call history and of the server
restVars == <<searchI, searchJ, runningBest, history, symbolsCache, lastSymbolsFetch,
              clock, symCalls, requests>>

vars == <<candles, bg, window, pc, pivotHighs, pivotLows, pivotA, pivotB, type,
          candidate, supportLine, resistanceLine, result, searchI, searchJ, runningBest,
          history, symbolsCache, lastSymbolsFetch, clock, symCalls, requests>>

----------------------------------------------------------------------------
(* Program constants *)

PIVOT_WINDOW == 5

\* milliseconds
SYMBOL_CACHE_TTL == 1000 * 60 * 15

\* 1e-6, in units of 1e-7
LINE_TOLERANCE == 10

\* a touch tolerance without the factor 10
pivotToleranceUnscaled == LINE_TOLERANCE

\* const pivotTolerance = LINE_TOLERANCE * 10
pivotTolerance == LINE_TOLERANCE * 10

(* Bounds of the model *)

MaxCalls == 3

MaxSymCalls == 3

MaxPeriods == 1

MaxRequests == 2

MaxPivotLen == 6
MaxWindow == 2
MaxEvalLen == 4
MaxLen == 24
MaxSpecial == 3

----------------------------------------------------------------------------
(* Values *)

\* JavaScript null, as returned by evaluateTrendLine and searchBest
Null == [type |-> "none"]

NoPivot == [index |-> -1, price |-> 0, time |-> 0]

\* the variables a specification does not use, at rest
RestIdle ==
  /\ searchI = -1
  /\ searchJ = -1
  /\ runningBest = Null
  /\ history = <<>>
  /\ symbolsCache = <<>>
  /\ lastSymbolsFetch = 0
  /\ clock = 0
  /\ symCalls = <<>>
  /\ requests = <<>>

Candle(t, h, l) == [time |-> t, high |-> h, low |-> l]

\* candles[idx]
At(c, idx) == c[idx + 1]

Abs(x) == IF x < 0 THEN -x ELSE x

Sign(x) == IF x < 0 THEN -1 ELSE IF x > 0 THEN 1 ELSE 0

\* Number(p.toFixed(6)) for a price of p units: the nearest multiple of 10
\* units, a tie going to the larger magnitude
Round6(p) == IF p >= 0 THEN ((p + 5) \div 10) * 10 ELSE -(((-p + 5) \div 10) * 10)

\* Number(v.toFixed(6)) for the rational v = num / den units, den > 0
Round6Frac(num, den) ==
  IF num >= 0 THEN ((2 * num + 10 * den) \div (20 * den)) * 10
  ELSE -(((2 * (-num) + 10 * den) \div (20 * den)) * 10)

----------------------------------------------------------------------------
(* findPivotPoints *)

\* if (!isPivotHigh && !isPivotLow) break;
BreakScanEither(isPivotHigh, isPivotLow) == ~isPivotHigh \/ ~isPivotLow

BreakScan(isPivotHigh, isPivotLow) == ~isPivotHigh /\ ~isPivotLow

\* the inner loop over j of findPivotPoints, from j on, with the two flags
RECURSIVE ScanWindow(_, _, _, _, _, _)
ScanWindow(c, w, i, j, isPivotHigh, isPivotLow) ==
  IF j > i + w THEN [high |-> isPivotHigh, low |-> isPivotLow]
  ELSE IF j = i THEN ScanWindow(c, w, i, j + 1, isPivotHigh, isPivotLow)
  ELSE LET h == IF At(c, j).high >= At(c, i).high THEN FALSE ELSE isPivotHigh
           l == IF At(c, j).low <= At(c, i).low THEN FALSE ELSE isPivotLow
       IN IF BreakScan(h, l) THEN [high |-> h, low |-> l]
          ELSE ScanWindow(c, w, i, j + 1, h, l)

\* the outer loop over i of findPivotPoints, from i on, with the two lists
RECURSIVE PivotLoop(_, _, _, _, _)
PivotLoop(c, w, i, highs, lows) ==
  IF ~(i < Len(c) - w) THEN [pivotHighs |-> highs, pivotLows |-> lows]
  ELSE LET f == ScanWindow(c, w, i, i - w, TRUE, TRUE)
           cur == At(c, i)
           hs == IF f.high
                 THEN Append(highs, [index |-> i, price |-> cur.high, time |-> cur.time])
                 ELSE highs
           ls == IF f.low
                 THEN Append(lows, [index |-> i, price |-> cur.low, time |-> cur.time])
                 ELSE lows
       IN PivotLoop(c, w, i + 1, hs, ls)

\* a detector that clips the neighbourhood at the ends of the series and so
\* scans every index
RECURSIVE ClampedLoop(_, _, _, _, _)
ClampedLoop(c, w, i, highs, lows) ==
  IF ~(i < Len(c)) THEN [pivotHighs |-> highs, pivotLows |-> lows]
  ELSE LET nb == {j \in 0..(Len(c) - 1) : j # i /\ j >= i - w /\ j <= i + w}
           cur == At(c, i)
           hs == IF \A j \in nb : At(c, j).high < cur.high
                 THEN Append(highs, [index |-> i, price |-> cur.high, time |-> cur.time])
                 ELSE highs
           ls == IF \A j \in nb : At(c, j).low > cur.low
                 THEN Append(lows, [index |-> i, price |-> cur.low, time |-> cur.time])
                 ELSE lows
       IN ClampedLoop(c, w, i + 1, hs, ls)

\* a detector that compares with > and < reversed to >= and <=, so that an
\* extreme shared with a neighbour still counts
RECURSIVE TiesLoop(_, _, _, _, _)
TiesLoop(c, w, i, highs, lows) ==
  IF ~(i < Len(c) - w) THEN [pivotHighs |-> highs, pivotLows |-> lows]
  ELSE LET nb == {j \in (i - w)..(i + w) : j # i}
           cur == At(c, i)
           hs == IF \A j \in nb : At(c, j).high <= cur.high
                 THEN Append(highs, [index |-> i, price |-> cur.high, time |-> cur.time])
                 ELSE highs
           ls == IF \A j \in nb : At(c, j).low >= cur.low
                 THEN Append(lows, [index |-> i, price |-> cur.low, time |-> cur.time])
                 ELSE lows
       IN TiesLoop(c, w, i + 1, hs, ls)

findPivotPointsTiesAllowed(c, w) == TiesLoop(c, w, w, <<>>, <<>>)

findPivotPointsClamped(c, w) == ClampedLoop(c, w, 0, <<>>, <<>>)

findPivotPoints(c, w) == PivotLoop(c, w, w, <<>>, <<>>)

----------------------------------------------------------------------------
(* evaluateTrendLine *)

\* (expected(idx) - ext) * |indexDiff|, where
\* expected(idx) = pivotA.price + slope * (idx - pivotA.index) and
\* slope = (pivotB.price - pivotA.price) / indexDiff
Dev(A, B, idx, ext) ==
  LET indexDiff == B.index - A.index
  IN Sign(indexDiff) *
       ((B.price - A.price) * (idx - A.index) - (ext - A.price) * indexDiff)

\* candles[idx].low for 'support', candles[idx].high otherwise
Extreme(c, idx, ty) == IF ty = "support" THEN At(c, idx).low ELSE At(c, idx).high

\* the containment test with the resistance comparison in both branches
PiercedResistanceBranchOnly(c, A, B, ty, idx) ==
  Dev(A, B, idx, Extreme(c, idx, ty)) < -(LINE_TOLERANCE * Abs(B.index - A.index))

\* the containment test made with the touch tolerance
PiercedBeyondTouchTolerance(c, A, B, ty, idx) ==
  LET D == Abs(B.index - A.index)
      dev == Dev(A, B, idx, Extreme(c, idx, ty))
  IN IF ty = "support" THEN dev > pivotTolerance * D
     ELSE dev < -(pivotTolerance * D)

\* expected > candles[idx].low + LINE_TOLERANCE, resp.
\* expected < candles[idx].high - LINE_TOLERANCE
Pierced(c, A, B, ty, idx) ==
  LET D == Abs(B.index - A.index)
      dev == Dev(A, B, idx, Extreme(c, idx, ty))
  IN IF ty = "support" THEN dev > LINE_TOLERANCE * D
     ELSE dev < -(LINE_TOLERANCE * D)

\* Math.abs(candles[idx].low - expected) <= pivotTolerance (resp. .high)
Touches(c, A, B, ty, idx) ==
  Abs(Dev(A, B, idx, Extreme(c, idx, ty))) <= pivotTolerance * Abs(B.index - A.index)

\* the loop over idx of evaluateTrendLine, from idx on: -1 when it returns
\* null from inside the loop, the number of touches otherwise
RECURSIVE EvalScan(_, _, _, _, _, _)
EvalScan(c, A, B, ty, idx, touches) ==
  IF ~(idx < Len(c)) THEN touches
  ELSE IF Pierced(c, A, B, ty, idx) THEN -1
  ELSE EvalScan(c, A, B, ty, idx + 1,
                IF Touches(c, A, B, ty, idx) THEN touches + 1 ELSE touches)

\* points with the end point pushed also when pivotB is the last index
LinePointsAlwaysEnd(c, A, B) ==
  LET indexDiff == B.index - A.index
      lastIndex == Len(c) - 1
      endNum == Sign(indexDiff) *
                  (A.price * indexDiff + (B.price - A.price) * (lastIndex - A.index))
  IN << [x |-> At(c, A.index).time, y |-> Round6(A.price)],
        [x |-> At(c, B.index).time, y |-> Round6(B.price)],
        [x |-> At(c, lastIndex).time, y |-> Round6Frac(endNum, Abs(indexDiff))] >>

\* the points of a candidate
LinePoints(c, A, B) ==
  LET indexDiff == B.index - A.index
      lastIndex == Len(c) - 1
      \* endValue = endNum / |indexDiff|
      endNum == Sign(indexDiff) *
                  (A.price * indexDiff + (B.price - A.price) * (lastIndex - A.index))
      points == << [x |-> At(c, A.index).time, y |-> Round6(A.price)],
                   [x |-> At(c, B.index).time, y |-> Round6(B.price)] >>
  IN IF B.index < lastIndex
     THEN Append(points, [x |-> At(c, lastIndex).time,
                          y |-> Round6Frac(endNum, Abs(indexDiff))])
     ELSE points

\* the evaluation with the loop started one candle after pivotA
evaluateTrendLineSkipsA(c, A, B, ty) ==
  IF B.index - A.index = 0 THEN Null
  ELSE LET touches == EvalScan(c, A, B, ty, A.index + 1, 0)
       IN IF touches = -1 THEN Null
          ELSE IF touches < 2 THEN Null
          ELSE [type |-> ty, touches |-> touches, pivotA |-> A, pivotB |-> B,
                points |-> LinePoints(c, A, B)]

evaluateTrendLine(c, A, B, ty) ==
  IF B.index - A.index = 0 THEN Null
  ELSE LET touches == EvalScan(c, A, B, ty, A.index, 0)
       IN IF touches = -1 THEN Null
          ELSE IF touches < 2 THEN Null
          ELSE [type |-> ty, touches |-> touches, pivotA |-> A, pivotB |-> B,
                points |-> LinePoints(c, A, B)]

----------------------------------------------------------------------------
(* searchBest and findBestTrendLine *)

\* the update with >= in the comparison of touches
UpdateOnEqualTouches(best, cand) ==
  IF cand = Null THEN best
  ELSE IF best = Null THEN cand
  ELSE IF cand.touches >= best.touches THEN cand
  ELSE IF cand.pivotB.index > best.pivotB.index THEN cand
  ELSE IF cand.pivotB.index = best.pivotB.index
          /\ cand.pivotA.index > best.pivotA.index THEN cand
  ELSE best

\* the body of searchBest's inner loop after the candidate is evaluated:
\* the new value of best
Update(best, cand) ==
  IF cand = Null THEN best
  ELSE IF best = Null THEN cand
  ELSE IF cand.touches > best.touches THEN cand
  ELSE IF cand.pivotB.index > best.pivotB.index THEN cand
  ELSE IF cand.pivotB.index = best.pivotB.index
          /\ cand.pivotA.index > best.pivotA.index THEN cand
  ELSE best

\* searchBest's two loops, from (i, j) on
RECURSIVE SearchLoop(_, _, _, _, _, _)
SearchLoop(c, pivots, ty, i, j, best) ==
  IF ~(i >= 1) THEN best
  ELSE IF ~(j >= 0) THEN SearchLoop(c, pivots, ty, i - 1, i - 2, best)
  ELSE SearchLoop(c, pivots, ty, i, j - 1,
                  Update(best, evaluateTrendLine(c, At(pivots, j), At(pivots, i), ty)))

searchBest(c, pivots, ty) ==
  SearchLoop(c, pivots, ty, Len(pivots) - 1, Len(pivots) - 2, Null)

\* the selection with the returned array kept in the variable result, outside
\* the function, and left as it is when no line exists
SelectLineKeepsLast(support, resistance) ==
  IF support # Null /\ resistance # Null
  THEN IF support.pivotB.index >= resistance.pivotB.index
       THEN support.points ELSE resistance.points
  ELSE IF support # Null THEN support.points
  ELSE IF resistance # Null THEN resistance.points
  ELSE result

\* the selection with > in place of >=
SelectLineStrict(support, resistance) ==
  IF support # Null /\ resistance # Null
  THEN IF support.pivotB.index > resistance.pivotB.index
       THEN support.points ELSE resistance.points
  ELSE IF support # Null THEN support.points
  ELSE IF resistance # Null THEN resistance.points
  ELSE <<>>

\* the end of findBestTrendLine: which line's points are returned
SelectLine(support, resistance) ==
  IF support # Null /\ resistance # Null
  THEN IF support.pivotB.index >= resistance.pivotB.index
       THEN support.points ELSE resistance.points
  ELSE IF support # Null THEN support.points
  ELSE IF resistance # Null THEN resistance.points
  ELSE <<>>

\* if (candles.length < PIVOT_WINDOW * 2 + 2) return [];
TooShort(c) == Len(c) < PIVOT_WINDOW * 2 + 2

\* the result replaced by a two-point line from the first to the last candle
\* whenever there are candles (the whole-series overlay of handleKlinesRequest)
findBestTrendLineOverlaid(c) ==
  IF Len(c) = 0 THEN <<>>
  ELSE << [x |-> c[1].time, y |-> Round6(c[1].low)],
          [x |-> c[Len(c)].time, y |-> Round6(c[Len(c)].low)] >>

findBestTrendLine(c) ==
  IF TooShort(c) THEN <<>>
  ELSE LET p == findPivotPoints(c, PIVOT_WINDOW)
       IN SelectLine(searchBest(c, p.pivotLows, "support"),
                     searchBest(c, p.pivotHighs, "resistance"))

----------------------------------------------------------------------------
(* Specification SpecPivot: findPivotPoints on every series of at most      *)
(* MaxPivotLen candles over two highs and two lows, for every window of     *)
(* 1..MaxWindow.                                                            *)

TimeAt(i) == 1000 + 60 * i

PivotHighValues == {6, 7}
PivotLowValues == {1, 2}

InitPivot ==
  /\ candles = <<>>
  /\ bg = "none"
  /\ window \in 1..MaxWindow
  /\ pc = "build"
  /\ pivotHighs = <<>>
  /\ pivotLows = <<>>
  /\ pivotA = NoPivot
  /\ pivotB = NoPivot
  /\ type = "none"
  /\ candidate = Null
  /\ supportLine = Null
  /\ resistanceLine = Null
  /\ result = <<>>
  /\ RestIdle

AppendPivotCandle ==
  /\ pc = "build"
  /\ Len(candles) < MaxPivotLen
  /\ \E h \in PivotHighValues, l \in PivotLowValues :
       candles' = Append(candles, Candle(TimeAt(Len(candles)), h, l))
  /\ UNCHANGED <<bg, window, pc, pivotHighs, pivotLows, pivotA, pivotB, type,
                 candidate, supportLine, resistanceLine, result>>
  /\ UNCHANGED restVars

CallFindPivotPoints ==
  /\ pc = "build"
  /\ LET p == findPivotPoints(candles, window)
     IN /\ pivotHighs' = p.pivotHighs
        /\ pivotLows' = p.pivotLows
  /\ pc' = "pivots"
  /\ UNCHANGED <<candles, bg, window, pivotA, pivotB, type, candidate,
                 supportLine, resistanceLine, result>>
  /\ UNCHANGED restVars

NextPivot == AppendPivotCandle \/ CallFindPivotPoints

SpecPivot == InitPivot /\ [][NextPivot]_vars

----------------------------------------------------------------------------
(* Claims about findPivotPoints, under SpecPivot *)

PivotIndices(list) == {list[k].index : k \in 1..Len(list)}

\* index i has its whole neighbourhood [i-w, i+w] inside the series
FullNeighbourhood(c, w, i) == i - w >= 0 /\ i + w <= Len(c) - 1

NaiveHigh(c, w, i) ==
  \A j \in (i - w)..(i + w) : j # i => At(c, i).high > At(c, j).high

NaiveLow(c, w, i) ==
  \A j \in (i - w)..(i + w) : j # i => At(c, i).low < At(c, j).low

PivotOf(c, list, field) ==
  \A k \in 1..Len(list) :
    /\ list[k].index \in 0..(Len(c) - 1)
    /\ list[k].price = At(c, list[k].index)[field]
    /\ list[k].time = At(c, list[k].index).time

\* C2: index i is reported as a pivot-high iff it has a full neighbourhood
\* and its high is strictly greater than every other high in
\* [i-window, i+window], and as a pivot-low iff its low is strictly less than
\* every other low there: the loop with its early exit gives the result of
\* the full window scan, and an equal extreme disqualifies the index.
C2_PivotIffStrictExtreme ==
  pc = "pivots" =>
    /\ PivotOf(candles, pivotHighs, "high")
    /\ PivotOf(candles, pivotLows, "low")
    /\ \A i \in 0..(Len(candles) - 1) :
         /\ i \in PivotIndices(pivotHighs)
              <=> (FullNeighbourhood(candles, window, i) /\ NaiveHigh(candles, window, i))
         /\ i \in PivotIndices(pivotLows)
              <=> (FullNeighbourhood(candles, window, i) /\ NaiveLow(candles, window, i))

\* a series with a reported pivot-high, and an index whose high is the
\* largest of its neighbourhood but tied, which is not reported
C2_Witness ==
  /\ pc = "pivots"
  /\ pivotHighs # <<>>
  /\ pivotLows # <<>>
  /\ \E i \in 0..(Len(candles) - 1) :
       /\ FullNeighbourhood(candles, window, i)
       /\ \A j \in (i - window)..(i + window) : At(candles, i).high >= At(candles, j).high
       /\ \E j \in (i - window)..(i + window) :
            j # i /\ At(candles, i).high = At(candles, j).high
       /\ i \notin PivotIndices(pivotHighs)

\* C3 as stated: every pivot index lies in [w, N-1-w), so that index N-1-w
\* is never reported.
C3_PivotRangeHalfOpen ==
  pc = "pivots" =>
    \A i \in PivotIndices(pivotHighs) \cup PivotIndices(pivotLows) :
      window <= i /\ i < Len(candles) - 1 - window

\* C3 as amended: every pivot index lies in [w, N-w), that is
\* w <= index <= N-1-w.
C3_PivotRange ==
  pc = "pivots" =>
    \A i \in PivotIndices(pivotHighs) \cup PivotIndices(pivotLows) :
      window <= i /\ i <= Len(candles) - 1 - window

\* index N-1-w and index w are both reported as pivots
C3_Witness ==
  /\ pc = "pivots"
  /\ Len(candles) - 1 - window \in PivotIndices(pivotHighs)
  /\ window \in PivotIndices(pivotLows)

\* the indices of a pivot list increase strictly along the list
AscendingByIndex(list) ==
  \A k \in 1..(Len(list) - 1) : list[k].index < list[k + 1].index

\* two entries of a pivot list are at least w + 1 indices apart
FarApart(list, w) ==
  \A k \in 1..Len(list), l \in 1..Len(list) :
    k # l => Abs(list[k].index - list[l].index) >= w + 1

\* C14: the pivot-high list and the pivot-low list are each strictly
\* ascending by index, and two distinct pivots of the same kind are more
\* than window indices apart.
C14_PivotListsAscendingFarApart ==
  pc = "pivots" =>
    /\ AscendingByIndex(pivotHighs)
    /\ AscendingByIndex(pivotLows)
    /\ FarApart(pivotHighs, window)
    /\ FarApart(pivotLows, window)

\* two pivot-highs exactly window + 1 apart, with a pivot-low between them,
\* in a series that also has two equal highs next to each other
C14_Witness ==
  /\ pc = "pivots"
  /\ Len(pivotHighs) = 2
  /\ pivotHighs[2].index - pivotHighs[1].index = window + 1
  /\ \E k \in 1..Len(pivotLows) :
       pivotHighs[1].index < pivotLows[k].index
         /\ pivotLows[k].index < pivotHighs[2].index
  /\ \E i \in 1..(Len(candles) - 1) : candles[i].high = candles[i + 1].high

----------------------------------------------------------------------------
(* Specification SpecEval: evaluateTrendLine on every series of at most     *)
(* MaxEvalLen candles over EvalLows, for every pair of indices a < b and    *)
(* both types; as in searchBest's calls, each pivot carries the extreme of  *)
(* its candle.                                                              *)

\* 1.0000004, 1.0000009, ... : apart by less than LINE_TOLERANCE, by less
\* than the touch tolerance, by exactly it, and by more
EvalLows == {10000004, 10000009, 10000019, 10000104, 10000115}

EvalHigh(l) == l + 3000

PivotAt(c, idx, ty) ==
  [index |-> idx, price |-> Extreme(c, idx, ty), time |-> At(c, idx).time]

AppendEvalCandle ==
  /\ pc = "build"
  /\ Len(candles) < MaxEvalLen
  /\ \E l \in EvalLows :
       candles' = Append(candles, Candle(TimeAt(Len(candles)), EvalHigh(l), l))
  /\ UNCHANGED <<bg, window, pc, pivotHighs, pivotLows, pivotA, pivotB, type,
                 candidate, supportLine, resistanceLine, result>>
  /\ UNCHANGED restVars

CallEvaluateTrendLine ==
  /\ pc = "build"
  /\ \E a \in 0..(Len(candles) - 1), b \in 0..(Len(candles) - 1),
        ty \in {"support", "resistance"} :
       /\ a < b
       /\ pivotA' = PivotAt(candles, a, ty)
       /\ pivotB' = PivotAt(candles, b, ty)
       /\ type' = ty
       /\ candidate' = evaluateTrendLine(candles, PivotAt(candles, a, ty),
                                         PivotAt(candles, b, ty), ty)
  /\ pc' = "evaluated"
  /\ UNCHANGED <<candles, bg, window, pivotHighs, pivotLows, supportLine,
                 resistanceLine, result>>
  /\ UNCHANGED restVars

InitEval ==
  /\ candles = <<>>
  /\ bg = "none"
  /\ window = PIVOT_WINDOW
  /\ pc = "build"
  /\ pivotHighs = <<>>
  /\ pivotLows = <<>>
  /\ pivotA = NoPivot
  /\ pivotB = NoPivot
  /\ type = "none"
  /\ candidate = Null
  /\ supportLine = Null
  /\ resistanceLine = Null
  /\ result = <<>>
  /\ RestIdle

NextEval == AppendEvalCandle \/ CallEvaluateTrendLine

SpecEval == InitEval /\ [][NextEval]_vars

----------------------------------------------------------------------------
(* Claims about evaluateTrendLine, under SpecEval *)

\* expected(idx) * (pivotB.index - pivotA.index), for pivotA.index < pivotB.index
ExpectedTimesDiff(A, B, idx) ==
  A.price * (B.index - A.index) + (B.price - A.price) * (idx - A.index)

\* the line through A and B stays within eps of candle idx, on the side of ty
Contained(c, A, B, ty, idx, eps) ==
  IF ty = "support"
  THEN ExpectedTimesDiff(A, B, idx) <= (At(c, idx).low + eps) * (B.index - A.index)
  ELSE ExpectedTimesDiff(A, B, idx) >= (At(c, idx).high - eps) * (B.index - A.index)

\* |actual_extreme(idx) - expected(idx)| <= tol
Near(c, A, B, ty, idx, tol) ==
  LET e == IF ty = "support" THEN At(c, idx).low ELSE At(c, idx).high
      diff == e * (B.index - A.index) - ExpectedTimesDiff(A, B, idx)
  IN diff <= tol * (B.index - A.index) /\ -diff <= tol * (B.index - A.index)

TouchCount(c, A, B, ty) ==
  Cardinality({idx \in A.index..(Len(c) - 1) : Near(c, A, B, ty, idx, 100)})

\* C1: a candidate that evaluateTrendLine returns is contained at every index
\* from pivotA.index to N-1: expected(idx) <= low + epsilon for support,
\* expected(idx) >= high - epsilon for resistance.
C1_Containment ==
  (pc = "evaluated" /\ candidate # Null) =>
    \A idx \in pivotA.index..(Len(candles) - 1) :
      Contained(candles, candidate.pivotA, candidate.pivotB, candidate.type, idx, 10)

\* a returned support line with a nonzero slope, a candle between the pivots
\* and a candle after pivotB that lies above the line by more than epsilon
C1_Witness ==
  /\ pc = "evaluated"
  /\ candidate # Null
  /\ candidate.type = "support"
  /\ pivotA.price # pivotB.price
  /\ pivotB.index > pivotA.index + 1
  /\ \E idx \in (pivotB.index + 1)..(Len(candles) - 1) :
       ~Near(candles, pivotA, pivotB, "support", idx, 10)

\* C7: a returned candidate has touches >= 2, touches being the number of
\* indices in [pivotA.index, N-1] whose extreme is within 10*epsilon of the
\* line; a pair with fewer than 2 such indices yields none.
C7_TouchesCounted ==
  pc = "evaluated" =>
    /\ candidate # Null =>
         /\ candidate.touches >= 2
         /\ candidate.touches = TouchCount(candles, pivotA, pivotB, type)
    /\ TouchCount(candles, pivotA, pivotB, type) < 2 => candidate = Null

\* a returned candidate with three touches, one of them off the line by more
\* than epsilon, and one index that is no touch
C7_Witness ==
  /\ pc = "evaluated"
  /\ candidate # Null
  /\ candidate.touches = 3
  /\ Len(candles) - pivotA.index = 4
  /\ \E idx \in pivotA.index..(Len(candles) - 1) :
       /\ Near(candles, pivotA, pivotB, type, idx, 100)
       /\ ~Near(candles, pivotA, pivotB, type, idx, 10)

\* y is p / q units rounded to 6 decimals (a multiple of 10 units, nearest to
\* p / q, the larger one on a tie), for q > 0 and p >= 0
IsRound6(y, p, q) ==
  /\ y % 10 = 0
  /\ (y - 5) * q <= p
  /\ p < (y + 5) * q

\* C8: the points of a returned candidate are (time of candle pivotA.index,
\* pivotA.price rounded to 6 decimals), (time of candle pivotB.index,
\* pivotB.price rounded), and a third point (time of candle N-1, expected(N-1)
\* rounded) exactly when pivotB.index < N-1.
C8_Points ==
  (pc = "evaluated" /\ candidate # Null) =>
    LET pts == candidate.points
        last == Len(candles) - 1
    IN /\ Len(pts) = IF pivotB.index < last THEN 3 ELSE 2
       /\ pts[1].x = At(candles, pivotA.index).time
       /\ IsRound6(pts[1].y, pivotA.price, 1)
       /\ pts[2].x = At(candles, pivotB.index).time
       /\ IsRound6(pts[2].y, pivotB.price, 1)
       /\ pivotB.index < last =>
            /\ pts[3].x = At(candles, last).time
            /\ IsRound6(pts[3].y, ExpectedTimesDiff(pivotA, pivotB, last),
                        pivotB.index - pivotA.index)

\* a candidate whose pivotB is the last index (two points), with a price that
\* rounding changes
C8_WitnessTwo ==
  /\ pc = "evaluated"
  /\ candidate # Null
  /\ pivotB.index = Len(candles) - 1
  /\ Len(candidate.points) = 2
  /\ candidate.points[1].y # pivotA.price

\* a candidate with the extrapolated third point, whose exact value is no
\* whole number of units
C8_WitnessThree ==
  /\ pc = "evaluated"
  /\ candidate # Null
  /\ Len(candidate.points) = 3
  /\ ExpectedTimesDiff(pivotA, pivotB, Len(candles) - 1)
       % (pivotB.index - pivotA.index) # 0

\* the containment check passes at every index the loop visits
ContainmentPasses(c, A, B, ty) ==
  \A idx \in A.index..(Len(c) - 1) : Contained(c, A, B, ty, idx, 10)

\* C12: both defining pivots count as touches, so a pair whose containment
\* check passes at every index is never discarded by 'touches < 2': it
\* yields a candidate.
C12_PivotsAreTouches ==
  pc = "evaluated" =>
    /\ Near(candles, pivotA, pivotB, type, pivotA.index, 100)
    /\ Near(candles, pivotA, pivotB, type, pivotB.index, 100)
    /\ ContainmentPasses(candles, pivotA, pivotB, type) =>
         candidate # Null /\ candidate.touches >= 2

\* a returned candidate whose only touches are its two pivots, with a candle
\* between them and a candle after pivotB
C12_Witness ==
  /\ pc = "evaluated"
  /\ candidate # Null
  /\ candidate.touches = 2
  /\ pivotB.index - pivotA.index >= 2
  /\ pivotB.index < Len(candles) - 1
  /\ \A idx \in pivotA.index..(Len(candles) - 1) :
       Near(candles, pivotA, pivotB, type, idx, 100) => idx \in {pivotA.index, pivotB.index}

----------------------------------------------------------------------------
(* Specification Spec: findBestTrendLine on series of at most MaxLen        *)
(* candles.  A series follows one of four backgrounds (flat, a slow drift,  *)
(* a steep rise of 1.0 per candle from low 99 / high 100, a V with its      *)
(* minimum at index 11) and departs from it at no more than MaxSpecial      *)
(* candles, placed at indices 5, 11, 17, ... (one per pivot window): a nick, *)
(* a dip or a deep dip (lower low), a peak (higher high) or a wide candle   *)
(* (both).                                                                  *)

Backgrounds == {"flat", "drift", "rise", "vee"}

Kinds == {"plain", "nick", "dip", "deep", "peak", "wide"}

BaseLow(b, i) ==
  CASE b = "flat" -> 10000004
    [] b = "drift" -> 10000004 + 10 * i
    [] b = "rise" -> 990000000 + 10000000 * i
    [] b = "vee" -> 10000004 + 30 * Abs(i - 11)

BaseHigh(b, i) == BaseLow(b, i) + (IF b = "rise" THEN 10000000 ELSE 3000)

KindCandle(b, i, k) ==
  Candle(TimeAt(i),
         BaseHigh(b, i) + (IF k \in {"peak", "wide"} THEN 155 ELSE 0),
         BaseLow(b, i) - (IF k \in {"dip", "wide"} THEN 155
                          ELSE IF k = "deep" THEN 310
                          ELSE IF k = "nick" THEN 55 ELSE 0))

SpecialCount(c, b) ==
  Cardinality({i \in 0..(Len(c) - 1) : At(c, i) # KindCandle(b, i, "plain")})

IsSlot(i) == i % (PIVOT_WINDOW + 1) = PIVOT_WINDOW

Init ==
  /\ candles = <<>>
  /\ bg \in Backgrounds
  /\ window = PIVOT_WINDOW
  /\ pc = "build"
  /\ pivotHighs = <<>>
  /\ pivotLows = <<>>
  /\ pivotA = NoPivot
  /\ pivotB = NoPivot
  /\ type = "none"
  /\ candidate = Null
  /\ supportLine = Null
  /\ resistanceLine = Null
  /\ result = <<>>
  /\ RestIdle

AppendCandle ==
  /\ pc = "build"
  /\ Len(candles) < MaxLen
  /\ \E k \in Kinds :
       /\ k # "plain" =>
            IsSlot(Len(candles)) /\ SpecialCount(candles, bg) < MaxSpecial
       /\ candles' = Append(candles, KindCandle(bg, Len(candles), k))
  /\ UNCHANGED <<bg, window, pc, pivotHighs, pivotLows, pivotA, pivotB, type,
                 candidate, supportLine, resistanceLine, result>>
  /\ UNCHANGED restVars

CallFindBestTrendLine ==
  /\ pc = "build"
  /\ result' = findBestTrendLine(candles)
  /\ IF TooShort(candles)
     THEN UNCHANGED <<pivotHighs, pivotLows, supportLine, resistanceLine>>
     ELSE LET p == findPivotPoints(candles, PIVOT_WINDOW)
          IN /\ pivotHighs' = p.pivotHighs
             /\ pivotLows' = p.pivotLows
             /\ supportLine' = searchBest(candles, p.pivotLows, "support")
             /\ resistanceLine' = searchBest(candles, p.pivotHighs, "resistance")
  /\ pc' = "done"
  /\ UNCHANGED <<candles, bg, window, pivotA, pivotB, type, candidate>>
  /\ UNCHANGED restVars

Next == AppendCandle \/ CallFindBestTrendLine

Spec == Init /\ [][Next]_vars

----------------------------------------------------------------------------
(* Claims about searchBest and findBestTrendLine, under Spec *)

\* the candidates evaluateTrendLine returns for the pairs (pivots[j], pivots[i]), j < i
ValidCandidates(c, pivots, ty) ==
  {evaluateTrendLine(c, pivots[j], pivots[i], ty) :
     <<j, i>> \in {q \in (1..Len(pivots)) \X (1..Len(pivots)) : q[1] < q[2]}} \ {Null}

\* x is better than y: more touches, then larger pivotB.index, then larger
\* pivotA.index
Better(x, y) ==
  \/ x.touches > y.touches
  \/ x.touches = y.touches /\ x.pivotB.index > y.pivotB.index
  \/ x.touches = y.touches /\ x.pivotB.index = y.pivotB.index
       /\ x.pivotA.index > y.pivotA.index

IsMaximum(line, c, pivots, ty) ==
  IF ValidCandidates(c, pivots, ty) = {} THEN line = Null
  ELSE /\ line \in ValidCandidates(c, pivots, ty)
       /\ \A v \in ValidCandidates(c, pivots, ty) : ~Better(v, line)

Searched == pc = "done" /\ ~TooShort(candles)

\* C4: searchBest returns the maximum, in the order (touches, pivotB.index,
\* pivotA.index), of the candidates of all pairs of the pivot list, and none
\* exactly when no pair yields a candidate.
C4_SearchBestIsMaximum ==
  Searched =>
    /\ IsMaximum(supportLine, candles, pivotLows, "support")
    /\ IsMaximum(resistanceLine, candles, pivotHighs, "resistance")

\* three low pivots give three candidates, of two and three touches; the one
\* returned was not the first the search met
C4_Witness ==
  /\ Searched
  /\ Len(pivotLows) = 3
  /\ Cardinality(ValidCandidates(candles, pivotLows, "support")) = 3
  /\ \E v \in ValidCandidates(candles, pivotLows, "support") : v.touches = 2
  /\ supportLine.touches >= 3
  /\ supportLine.pivotA.index # pivotLows[2].index

\* C5: the result is the support line's points when both lines exist and
\* supportLine.pivotB.index >= resistanceLine.pivotB.index, the resistance
\* line's points when both exist and its pivotB.index is strictly greater, the
\* only line's points when one exists, and empty when none does.
C5_Selector ==
  Searched =>
    /\ (supportLine # Null /\ resistanceLine # Null
          /\ supportLine.pivotB.index >= resistanceLine.pivotB.index)
         => result = supportLine.points
    /\ (supportLine # Null /\ resistanceLine # Null
          /\ resistanceLine.pivotB.index > supportLine.pivotB.index)
         => result = resistanceLine.points
    /\ (supportLine # Null /\ resistanceLine = Null) => result = supportLine.points
    /\ (supportLine = Null /\ resistanceLine # Null) => result = resistanceLine.points
    /\ (supportLine = Null /\ resistanceLine = Null) => result = <<>>

\* both lines exist, end at the same pivotB.index and have different points:
\* the support line's are returned
C5_Witness ==
  /\ Searched
  /\ supportLine # Null
  /\ resistanceLine # Null
  /\ supportLine.pivotB.index = resistanceLine.pivotB.index
  /\ supportLine.points # resistanceLine.points
  /\ result = supportLine.points

\* C6: a series of fewer than 2*PIVOT_WINDOW + 2 = 12 candles gives the empty
\* sequence.
C6_ShortSeriesEmpty ==
  (pc = "done" /\ Len(candles) < 12) => result = <<>>

\* a call on eleven candles, one of them a wide candle at index 5
C6_Witness ==
  /\ pc = "done"
  /\ Len(candles) = 11
  /\ At(candles, 5) = KindCandle(bg, 5, "wide")
  /\ result = <<>>

\* pivot-lows A before B of equal price with a candle between them whose low
\* is below that price by more than gap
EqualLowsAcrossDip(c, A, B, gap) ==
  /\ A.index < B.index
  /\ A.price = B.price
  /\ \E m \in (A.index + 1)..(B.index - 1) : At(c, m).low < A.price - gap

PivotSet(list) == {list[k] : k \in 1..Len(list)}

\* lows strictly decreasing up to index m and strictly increasing after it,
\* but for the candles at the indices in except
VShaped(c, m, except) ==
  \A i \in 0..(Len(c) - 2) :
    (i \notin except /\ i + 1 \notin except) =>
      IF i < m THEN At(c, i).low > At(c, i + 1).low
      ELSE At(c, i).low < At(c, i + 1).low

\* the V-shaped series of the claim: two pivot-lows of equal price, one on
\* each slope, the minimum between them strictly lower
VCase(A, B) ==
  /\ Searched
  /\ A \in PivotSet(pivotLows)
  /\ B \in PivotSet(pivotLows)
  /\ \E m \in (A.index + 1)..(B.index - 1) :
       /\ VShaped(candles, m, {A.index, B.index})
       /\ At(candles, m).low < A.price
       /\ \A i \in 0..(Len(candles) - 1) : At(candles, i).low >= At(candles, m).low
  /\ A.price = B.price

\* C9 as stated: on such a series the support search returns the candidate
\* built from the two equal pivots, with touches >= 2 (and slope zero).
C9_EqualLowsLineReturned ==
  \A A \in PivotSet(pivotLows), B \in PivotSet(pivotLows) :
    VCase(A, B) =>
      /\ supportLine # Null
      /\ supportLine.pivotA = A
      /\ supportLine.pivotB = B
      /\ supportLine.touches >= 2

\* C9 as amended: when a candle between two pivot-lows of equal price lies
\* more than epsilon below that price (as the minimum of the V does),
\* evaluateTrendLine returns none for the pair and the support search does
\* not return a candidate built from it.
C9_EqualLowsLineRejected ==
  Searched =>
    \A A \in PivotSet(pivotLows), B \in PivotSet(pivotLows) :
      EqualLowsAcrossDip(candles, A, B, 10) =>
        /\ evaluateTrendLine(candles, A, B, "support") = Null
        /\ supportLine # Null =>
             ~(supportLine.pivotA = A /\ supportLine.pivotB = B)

\* the V-shaped series with the two equal pivot-lows, for which the search
\* returns a candidate through another pair
C9_Witness ==
  \E A \in PivotSet(pivotLows), B \in PivotSet(pivotLows) :
    /\ VCase(A, B)
    /\ EqualLowsAcrossDip(candles, A, B, 10)
    /\ supportLine # Null
    /\ supportLine.pivotB = B
    /\ supportLine.pivotA # A

StrictlyIncreasing(c) ==
  \A i \in 1..(Len(c) - 1) : c[i].high < c[i + 1].high /\ c[i].low < c[i + 1].low

\* C10: for a series whose highs and lows strictly increase, findPivotPoints
\* returns no pivot-high and no pivot-low and findBestTrendLine returns the
\* empty sequence.
C10_RisingSeriesEmpty ==
  (pc = "done" /\ StrictlyIncreasing(candles)) =>
    /\ findPivotPoints(candles, PIVOT_WINDOW).pivotHighs = <<>>
    /\ findPivotPoints(candles, PIVOT_WINDOW).pivotLows = <<>>
    /\ pivotHighs = <<>>
    /\ pivotLows = <<>>
    /\ result = <<>>

\* the 20 candles with high = 100 + i and low = 99 + i
C10_Witness ==
  /\ pc = "done"
  /\ Len(candles) = 20
  /\ \A i \in 0..19 :
       /\ At(candles, i).high = (100 + i) * 10000000
       /\ At(candles, i).low = (99 + i) * 10000000
  /\ result = <<>>

\* C15: findBestTrendLine returns the empty sequence or exactly three
\* points, never two, and the third point's x is the time of the last candle.
C15_ZeroOrThreePoints ==
  pc = "done" =>
    /\ Len(result) \in {0, 3}
    /\ Len(result) = 3 => result[3].x = candles[Len(candles)].time

\* a returned line whose pivotB is the last index that can be a pivot,
\* N - 1 - PIVOT_WINDOW
C15_Witness ==
  /\ Searched
  /\ Len(result) = 3
  /\ result[2].x = At(candles, Len(candles) - 1 - PIVOT_WINDOW).time
  /\ result[3].x = At(candles, Len(candles) - 1).time
  /\ result[3].y # result[2].y

----------------------------------------------------------------------------
(* findBestTrendLine step by step: the call, one step per pair of           *)
(* searchBest's loops, and the return of each searchBest.  searchI and      *)
(* searchJ are the loop variables i and j, runningBest is the local best,   *)
(* type tells which of the two searches runs, history records every call    *)
(* that returned.                                                           *)

\* the series of n candles on background b whose candle at slot 5, 11, 17,
\* ... is of kind ks[1], ks[2], ks[3], ...
MakeSeries(b, n, ks) ==
  [i \in 1..n |->
     KindCandle(b, i - 1,
                IF IsSlot(i - 1) THEN ks[((i - 1) \div (PIVOT_WINDOW + 1)) + 1]
                ELSE "plain")]

\* the pivot list the running searchBest was called with
SearchPivots == IF type = "support" THEN pivotLows ELSE pivotHighs

\* findBestTrendLine(c) is entered: the early return, or findPivotPoints and
\* the entry of searchBest(pivotLows, 'support')
EnterFindBestTrendLine(c) ==
  /\ candles' = c
  /\ IF TooShort(c)
     THEN /\ result' = <<>>
          /\ history' = Append(history, [candles |-> c, result |-> <<>>])
          /\ pc' = "done"
          /\ UNCHANGED <<pivotHighs, pivotLows, type, searchI, searchJ, runningBest>>
     ELSE LET p == findPivotPoints(c, PIVOT_WINDOW)
          IN /\ pivotHighs' = p.pivotHighs
             /\ pivotLows' = p.pivotLows
             /\ type' = "support"
             /\ runningBest' = Null
             /\ searchI' = Len(p.pivotLows) - 1
             /\ searchJ' = Len(p.pivotLows) - 2
             /\ pc' = "search"
             /\ UNCHANGED <<result, history>>
  /\ UNCHANGED <<bg, window, pivotA, pivotB, candidate, supportLine, resistanceLine>>
  /\ UNCHANGED <<symbolsCache, lastSymbolsFetch, clock, symCalls, requests>>

\* one pass of the inner loop's body, and the loop headers up to the next pair
SearchStep ==
  /\ pc = "search"
  /\ searchI >= 1
  /\ searchJ >= 0
  /\ pivotA' = At(SearchPivots, searchJ)
  /\ pivotB' = At(SearchPivots, searchI)
  /\ candidate' = evaluateTrendLine(candles, At(SearchPivots, searchJ),
                                    At(SearchPivots, searchI), type)
  /\ runningBest' = Update(runningBest,
                           evaluateTrendLine(candles, At(SearchPivots, searchJ),
                                             At(SearchPivots, searchI), type))
  /\ IF searchJ - 1 >= 0
     THEN /\ searchJ' = searchJ - 1
          /\ searchI' = searchI
     ELSE /\ searchI' = searchI - 1
          /\ searchJ' = searchI - 2
  /\ UNCHANGED <<candles, bg, window, pc, pivotHighs, pivotLows, type, supportLine,
                 resistanceLine, result, history>>
  /\ UNCHANGED <<symbolsCache, lastSymbolsFetch, clock, symCalls, requests>>

\* return best: from the support search into the resistance search, from the
\* resistance search to the selection and the return of findBestTrendLine
SearchReturn ==
  /\ pc = "search"
  /\ ~(searchI >= 1)
  /\ IF type = "support"
     THEN /\ supportLine' = runningBest
          /\ type' = "resistance"
          /\ runningBest' = Null
          /\ searchI' = Len(pivotHighs) - 1
          /\ searchJ' = Len(pivotHighs) - 2
          /\ UNCHANGED <<pc, resistanceLine, result, history>>
     ELSE /\ resistanceLine' = runningBest
          /\ result' = SelectLine(supportLine, runningBest)
          /\ history' = Append(history, [candles |-> candles,
                                         result |-> SelectLine(supportLine, runningBest)])
          /\ pc' = "done"
          /\ UNCHANGED <<type, supportLine, runningBest, searchI, searchJ>>
  /\ UNCHANGED <<candles, bg, window, pivotHighs, pivotLows, pivotA, pivotB, candidate>>
  /\ UNCHANGED <<symbolsCache, lastSymbolsFetch, clock, symCalls, requests>>

\* no call of the engine made yet
EngineIdle ==
  /\ candles = <<>>
  /\ bg = "none"
  /\ window = PIVOT_WINDOW
  /\ pc = "build"
  /\ pivotHighs = <<>>
  /\ pivotLows = <<>>
  /\ pivotA = NoPivot
  /\ pivotB = NoPivot
  /\ type = "none"
  /\ candidate = Null
  /\ supportLine = Null
  /\ resistanceLine = Null
  /\ result = <<>>

InitIdle == EngineIdle /\ RestIdle

----------------------------------------------------------------------------
(* Specification SpecSearch: one call of findBestTrendLine, step by step,   *)
(* on the series of 12, 18, 24 or 30 candles of three backgrounds with a    *)
(* plain candle, a nick, a dip or a peak at each slot.                      *)

SearchKinds == {"plain", "nick", "dip", "peak"}

SearchInputs ==
  {MakeSeries(b, n, ks) : b \in {"flat", "drift", "vee"}, n \in {12, 18, 24, 30},
                          ks \in [1..5 -> SearchKinds]}

BeginSearch ==
  /\ pc = "build"
  /\ \E c \in SearchInputs : EnterFindBestTrendLine(c)

InitSearch == InitIdle

NextSearch == BeginSearch \/ SearchStep \/ SearchReturn

SpecSearch == InitSearch /\ [][NextSearch]_vars

\* a step of the inner loop within one search
InSearchStep == pc = "search" /\ searchI >= 1 /\ pc' = "search" /\ type' = type

\* C13: at every step of searchBest's enumeration the running best is
\* replaced only by a candidate strictly greater in the order (touches,
\* pivotB.index, pivotA.index): once set it is never unset, its touches never
\* decrease, a candidate with fewer touches never displaces it, and a
\* candidate that is not strictly greater leaves it in place.
C13_BestOnlyImproves ==
  [][InSearchStep /\ runningBest # Null =>
       /\ runningBest' # Null
       /\ runningBest'.touches >= runningBest.touches
       /\ runningBest' # runningBest =>
            runningBest' = candidate' /\ Better(runningBest', runningBest)
       /\ (candidate' # Null /\ candidate'.touches < runningBest.touches) =>
            runningBest' = runningBest
       /\ (candidate' # Null /\ ~Better(candidate', runningBest)) =>
            runningBest' = runningBest]_vars

\* a search in progress whose last candidate had fewer touches than the
\* running best and did not displace it
C13_Witness ==
  /\ pc = "search"
  /\ runningBest # Null
  /\ candidate # Null
  /\ candidate.type = type
  /\ candidate.touches < runningBest.touches
  /\ candidate.pivotB.index < runningBest.pivotB.index

----------------------------------------------------------------------------
(* Specification SpecCalls: up to MaxCalls successive calls of              *)
(* findBestTrendLine, as successive requests to handleKlinesRequest make    *)
(* them, each on one of the series of CallInputs.                           *)

CallShapes ==
  { <<"plain", "plain", "plain", "plain">>,
    <<"dip", "plain", "dip", "plain">>,
    <<"wide", "wide", "peak", "plain">> }

CallInputs ==
  {MakeSeries(b, 23, ks) : b \in {"flat", "vee"}, ks \in CallShapes}
    \cup {MakeSeries("flat", 11, ks) : ks \in CallShapes}

\* const trendLine = findBestTrendLine(candles), in one more request
CallOnceMore ==
  /\ pc \in {"build", "done"}
  /\ Len(history) < MaxCalls
  /\ \E c \in CallInputs : EnterFindBestTrendLine(c)

InitCalls == InitIdle

NextCalls == CallOnceMore \/ SearchStep \/ SearchReturn

SpecCalls == InitCalls /\ [][NextCalls]_vars

\* C11: two calls of findBestTrendLine on equal series return the same
\* points in the same order, whatever calls were made before and between
\* them.
C11_SameSeriesSameResult ==
  \A m \in 1..Len(history), n \in 1..Len(history) :
    history[m].candles = history[n].candles => history[m].result = history[n].result

\* the same series passed first and third, with a line found, and another
\* series with another line passed between
C11_Witness ==
  /\ Len(history) >= 3
  /\ history[1].candles = history[3].candles
  /\ history[1].result # <<>>
  /\ history[3].result = history[1].result
  /\ history[2].candles # history[1].candles
  /\ history[2].result # history[1].result
  /\ history[2].result # <<>>

----------------------------------------------------------------------------
(* getSymbols and its cache.  clock is Date.now() in milliseconds.  Each    *)
(* entry of symCalls is one call of getSymbols: the value of now it read,   *)
(* the cache and the fetch time it found, whether it called fetchJson, and  *)
(* its state: "fetching" while fetchJson is pending, "returned" with the    *)
(* list it returned, or "rejected".  Calls of concurrent requests overlap:  *)
(* a call waits at its await while others start and finish.                 *)

\* symbolsCache.length && now - lastSymbolsFetch < SYMBOL_CACHE_TTL, with the
\* time to live compared in seconds
CacheFreshInSeconds(cache, last, now) ==
  Len(cache) # 0 /\ now - last < SYMBOL_CACHE_TTL \div 1000

\* symbolsCache.length && now - lastSymbolsFetch < SYMBOL_CACHE_TTL
CacheFresh(cache, last, now) ==
  Len(cache) # 0 /\ now - last < SYMBOL_CACHE_TTL

\* (data.symbols || []).filter(status TRADING, quoteAsset USDT).map(...)
FilterSymbols(data) ==
  LET all == IF "symbols" \in DOMAIN data THEN data.symbols ELSE <<>>
      keep(x) == x.status = "TRADING" /\ x.quoteAsset = "USDT"
      kept == SelectSeq(all, keep)
  IN [k \in 1..Len(kept) |->
        [symbol |-> kept[k].symbol, baseAsset |-> kept[k].baseAsset,
         quoteAsset |-> kept[k].quoteAsset]]

\* an entry of the exchangeInfo answer
Listing(sym, base, quote, status) ==
  [symbol |-> sym, baseAsset |-> base, quoteAsset |-> quote, status |-> status]

\* the answers of the exchange that fetchJson resolves with
Payloads ==
  { [symbols |-> << Listing("BTCUSDT", "BTC", "USDT", "TRADING"),
                    Listing("ETHBTC", "ETH", "BTC", "TRADING"),
                    Listing("LUNAUSDT", "LUNA", "USDT", "BREAK") >>],
    [symbols |-> << Listing("ETHUSDT", "ETH", "USDT", "TRADING"),
                    Listing("BTCUSDT", "BTC", "USDT", "TRADING") >>],
    [timezone |-> "UTC"] }

\* the first value of Date.now(): later than one time to live after 0
ClockStart == SYMBOL_CACHE_TTL * 2

\* the instants at which events happen: the start, and one millisecond
\* before and exactly at each whole number of times to live after it
Instants ==
  {ClockStart + m * SYMBOL_CACHE_TTL + e : m \in 0..MaxPeriods, e \in {-1, 0}}

SetCall(k, st, val) ==
  [symCalls EXCEPT ![k] = [@ EXCEPT !.state = st, !.value = val]]

\* time passes
Tick ==
  /\ \E t \in Instants :
       /\ t > clock
       /\ clock' = t
  /\ UNCHANGED engineVars
  /\ UNCHANGED <<searchI, searchJ, runningBest, history, symbolsCache,
                 lastSymbolsFetch, symCalls, requests>>

\* getSymbols() up to its await: the cached list is returned, or fetchJson
\* is called
CallGetSymbols ==
  /\ Len(symCalls) < MaxSymCalls
  /\ LET fresh == CacheFresh(symbolsCache, lastSymbolsFetch, clock)
     IN symCalls' = Append(symCalls,
                           [now |-> clock,
                            cacheAtCall |-> symbolsCache,
                            lastAtCall |-> lastSymbolsFetch,
                            fetched |-> ~fresh,
                            state |-> IF fresh THEN "returned" ELSE "fetching",
                            value |-> IF fresh THEN symbolsCache ELSE <<>>])
  /\ UNCHANGED engineVars
  /\ UNCHANGED <<searchI, searchJ, runningBest, history, symbolsCache,
                 lastSymbolsFetch, clock, requests>>

\* fetchJson resolves: the rest of getSymbols
FetchResolve ==
  /\ \E k \in 1..Len(symCalls), data \in Payloads :
       /\ symCalls[k].state = "fetching"
       /\ symbolsCache' = FilterSymbols(data)
       /\ lastSymbolsFetch' = symCalls[k].now
       /\ symCalls' = SetCall(k, "returned", FilterSymbols(data))
  /\ UNCHANGED engineVars
  /\ UNCHANGED <<searchI, searchJ, runningBest, history, clock, requests>>

\* fetchJson rejects (a status other than 200, a body that is no JSON, a
\* network error): the await throws and getSymbols rejects
FetchReject ==
  /\ \E k \in 1..Len(symCalls) :
       /\ symCalls[k].state = "fetching"
       /\ symCalls' = SetCall(k, "rejected", <<>>)
  /\ UNCHANGED engineVars
  /\ UNCHANGED <<searchI, searchJ, runningBest, history, symbolsCache,
                 lastSymbolsFetch, clock, requests>>

InitCache ==
  /\ EngineIdle
  /\ searchI = -1
  /\ searchJ = -1
  /\ runningBest = Null
  /\ history = <<>>
  /\ symbolsCache = <<>>
  /\ lastSymbolsFetch = 0
  /\ clock = ClockStart
  /\ symCalls = <<>>
  /\ requests = <<>>

NextCache == Tick \/ CallGetSymbols \/ FetchResolve \/ FetchReject

SpecCache == InitCache /\ [][NextCache]_vars

\* the call was made with a non-empty cache less than 15 minutes old
MadeWithinTtl(call) ==
  call.cacheAtCall # <<>> /\ call.now - call.lastAtCall < 900000

\* C16: a call of getSymbols made while the cache is non-empty and less than
\* SYMBOL_CACHE_TTL has passed since lastSymbolsFetch returns the cached list
\* and makes no upstream fetch; a call whose fetch rejects leaves
\* symbolsCache and lastSymbolsFetch as they were.
C16_CacheHitAndRejectedFetch ==
  [][/\ \A k \in 1..Len(symCalls') :
          MadeWithinTtl(symCalls'[k]) =>
            /\ ~symCalls'[k].fetched
            /\ symCalls'[k].state = "returned"
            /\ symCalls'[k].value = symCalls'[k].cacheAtCall
     /\ \A k \in 1..Len(symCalls) :
          (symCalls[k].state = "fetching" /\ symCalls'[k].state = "rejected") =>
            symbolsCache' = symbolsCache /\ lastSymbolsFetch' = lastSymbolsFetch]_vars

\* one call filled the cache, a second made 15 minutes less a millisecond
\* later was answered from it, and a third, made after the time to live,
\* was rejected and left the cache and the fetch time of the first
C16_Witness ==
  /\ Len(symCalls) = 3
  /\ symCalls[1].state = "returned" /\ symCalls[1].fetched
  /\ symCalls[2].now - symCalls[1].now = 899999
  /\ symCalls[2].state = "returned" /\ ~symCalls[2].fetched
  /\ symCalls[2].value = symCalls[1].value
  /\ symCalls[3].state = "rejected"
  /\ symCalls[3].cacheAtCall # <<>>
  /\ symbolsCache = symCalls[1].value
  /\ symbolsCache # <<>>
  /\ lastSymbolsFetch = symCalls[1].now

----------------------------------------------------------------------------
(* The request handler of server.js.  Each entry of requests is one request *)
(* the handler was called with: what it asked for, how many times          *)
(* serveStaticFile was called for it, how many fs.readFile callbacks and    *)
(* whether an upstream fetch are still to come, every writeHead/end pair    *)
(* written to its response, and whether a writeHead was called on a         *)
(* response already written (which throws ERR_HTTP_HEADERS_SENT).           *)
(* The string operations on the path are abstracted to their outcomes:      *)
(* decodable (decodeURIComponent does not throw), ext (path.extname of the  *)
(* sanitized path), escapes (the resolved path lies outside PUBLIC_DIR).    *)

Incoming(method, pathname, symbol, decodable, ext) ==
  [method |-> method, pathname |-> pathname, symbol |-> symbol,
   decodable |-> decodable, ext |-> ext, escapes |-> FALSE]

\* the requests the server receives
IncomingRequests ==
  { Incoming("GET", "/api/symbols", "", TRUE, ""),
    Incoming("POST", "/api/symbols", "", TRUE, ""),
    Incoming("GET", "/api/klines", "BTCUSDT", TRUE, ""),
    Incoming("GET", "/api/klines", "", TRUE, ""),
    Incoming("GET", "/", "", TRUE, ""),
    Incoming("GET", "/app.js", "", TRUE, ".js"),
    Incoming("GET", "/%E0%A4%A", "", FALSE, "") }

\* which branch of the handler takes the request
Route(req) ==
  IF req.pathname = "/api/symbols" /\ req.method = "GET" THEN "symbols"
  ELSE IF req.pathname = "/api/klines" /\ req.method = "GET" THEN "klines"
  ELSE "static"

resolveRequestPath(req) ==
  IF ~req.decodable THEN [type |-> "error", status |-> 400, message |-> "Bad Request"]
  ELSE IF req.escapes THEN [type |-> "error", status |-> 403, message |-> "Forbidden"]
  ELSE [type |-> "file",
        path |-> IF req.pathname = "/" \/ req.ext = "" THEN "index.html"
                 ELSE req.pathname]

\* res.writeHead(status, ...); res.end(...), called by the function named by
WriteResponse(r, by, status) ==
  IF r.responses # <<>> THEN [r EXCEPT !.threw = TRUE]
  ELSE [r EXCEPT !.responses = Append(@, [by |-> by, status |-> status])]

\* serveStaticFile(res, filePath): fs.readFile is started
serveStaticFile(r) ==
  [r EXCEPT !.served = @ + 1, !.pendingReads = @ + 1]

NewRequest(req) ==
  [req |-> req, served |-> 0, pendingReads |-> 0, awaiting |-> FALSE, now |-> 0,
   responses |-> <<>>, threw |-> FALSE]

\* handleSymbolsRequest up to the return of getSymbols or its await
handleSymbolsRequest(r) ==
  IF CacheFresh(symbolsCache, lastSymbolsFetch, clock)
  THEN WriteResponse(r, "handleSymbolsRequest", 200)
  ELSE [r EXCEPT !.awaiting = TRUE, !.now = clock]

\* handleKlinesRequest up to its early return or its await
handleKlinesRequest(r) ==
  IF r.req.symbol = "" THEN WriteResponse(r, "handleKlinesRequest", 400)
  ELSE [r EXCEPT !.awaiting = TRUE, !.now = clock]

\* the handler after the first call of serveStaticFile: the path is
\* resolved again and served again
HandlerTail(r) ==
  IF r.req.escapes THEN WriteResponse(r, "handler", 403)
  ELSE serveStaticFile(r)

\* the callback of http.createServer, up to its return
Handler(r) ==
  IF Route(r.req) = "symbols" THEN handleSymbolsRequest(r)
  ELSE IF Route(r.req) = "klines" THEN handleKlinesRequest(r)
  ELSE LET resolved == resolveRequestPath(r.req)
       IN IF resolved.type = "error"
          THEN WriteResponse(r, "handler", resolved.status)
          ELSE HandlerTail(serveStaticFile(r))

\* the server receives a request
ReceiveRequest ==
  /\ Len(requests) < MaxRequests
  /\ \E req \in IncomingRequests :
       requests' = Append(requests, Handler(NewRequest(req)))
  /\ UNCHANGED engineVars
  /\ UNCHANGED <<searchI, searchJ, runningBest, history, symbolsCache,
                 lastSymbolsFetch, clock, symCalls>>

\* a callback of fs.readFile runs: the file was read, or was not
ReadFileDone ==
  /\ \E k \in 1..Len(requests), status \in {200, 404} :
       /\ requests[k].pendingReads > 0
       /\ requests' =
            [requests EXCEPT
               ![k] = WriteResponse([@ EXCEPT !.pendingReads = @ - 1],
                                    "serveStaticFile", status)]
  /\ UNCHANGED engineVars
  /\ UNCHANGED <<searchI, searchJ, runningBest, history, symbolsCache,
                 lastSymbolsFetch, clock, symCalls>>

\* the fetchJson an API handler awaits resolves: the rest of getSymbols for
\* /api/symbols, and the 200 response
UpstreamResolve ==
  /\ \E k \in 1..Len(requests), data \in Payloads :
       /\ requests[k].awaiting
       /\ IF Route(requests[k].req) = "symbols"
          THEN /\ symbolsCache' = FilterSymbols(data)
               /\ lastSymbolsFetch' = requests[k].now
               /\ requests' =
                    [requests EXCEPT
                       ![k] = WriteResponse([@ EXCEPT !.awaiting = FALSE],
                                            "handleSymbolsRequest", 200)]
          ELSE /\ UNCHANGED <<symbolsCache, lastSymbolsFetch>>
               /\ requests' =
                    [requests EXCEPT
                       ![k] = WriteResponse([@ EXCEPT !.awaiting = FALSE],
                                            "handleKlinesRequest", 200)]
  /\ UNCHANGED engineVars
  /\ UNCHANGED <<searchI, searchJ, runningBest, history, clock, symCalls>>

\* the fetchJson an API handler awaits rejects: the catch block's response
UpstreamReject ==
  /\ \E k \in 1..Len(requests) :
       /\ requests[k].awaiting
       /\ requests' =
            [requests EXCEPT
               ![k] = WriteResponse([@ EXCEPT !.awaiting = FALSE],
                                    IF Route(@.req) = "symbols"
                                    THEN "handleSymbolsRequest"
                                    ELSE "handleKlinesRequest", 500)]
  /\ UNCHANGED engineVars
  /\ UNCHANGED <<searchI, searchJ, runningBest, history, symbolsCache,
                 lastSymbolsFetch, clock, symCalls>>

InitServer == InitCache

NextServer == ReceiveRequest \/ ReadFileDone \/ UpstreamResolve \/ UpstreamReject \/ Tick

SpecServer == InitServer /\ [][NextServer]_vars

\* the function that is to answer the request
Responder(req) ==
  IF req.pathname = "/api/symbols" /\ req.method = "GET" THEN "handleSymbolsRequest"
  ELSE IF req.pathname = "/api/klines" /\ req.method = "GET" THEN "handleKlinesRequest"
  ELSE IF ~req.decodable THEN "handler"
  ELSE "serveStaticFile"

\* C17: every request leads to exactly one response (one writeHead/end
\* pair): an API request is answered only by its handler, a path that fails
\* resolution only by the error response, and a static-file request by
\* serveStaticFile, called exactly once and never twice.
C17_ExactlyOneResponse ==
  \A k \in 1..Len(requests) :
    LET r == requests[k]
    IN /\ Len(r.responses) <= 1
       /\ ~r.threw
       /\ (r.pendingReads = 0 /\ ~r.awaiting) => Len(r.responses) = 1
       /\ \A n \in 1..Len(r.responses) : r.responses[n].by = Responder(r.req)
       /\ r.served = (IF Responder(r.req) = "serveStaticFile" THEN 1 ELSE 0)
       /\ r.pendingReads + (IF r.awaiting THEN 1 ELSE 0) + Len(r.responses) = 1

====
